---- MODULE Spec2Model ----
(***************************************************************************)
(* A model of allowfail.py: the AllowFail guard, used as a decorator       *)
(* (AllowFail.__call__ / protect) and as a context manager                 *)
(* (AllowFail.__enter__ / AllowFail.__exit__).                             *)
(*                                                                         *)
(* Python strings are TLA+ strings.  A format template is the sequence of  *)
(* its pieces: the conversion specifiers "%s" and "%d" and the literal     *)
(* text between them.  A Python value handed to "%" is a record            *)
(* [t |-> type, s |-> its str()].  An exception instance is a record       *)
(* [kind, msg, origin, seq]; origin and seq give the instance its          *)
(* identity (two instances of the same kind and message are different      *)
(* objects when they were created at different places or in different      *)
(* operations).                                                            *)
(***************************************************************************)
EXTENDS Integers, Sequences, FiniteSets, TLC

\* Number of guarded calls and guarded blocks in one behaviour.
MaxOps == 2

-----------------------------------------------------------------------------
(* State *)

VARIABLES
    pc,            \* "new", "ready", "in_block", "exiting"
    guard,         \* the AllowFail instance
    target,        \* the function the guard decorates, NoFunc before that
    wrapper,       \* the protect function __call__ returned
    ops,           \* guarded calls and blocks started so far
    pending,       \* the exception the current block ended with
    last,          \* the last guarded operation and what its caller saw
    handlerCalls,  \* every invocation of an error handler, in order
    logEntries     \* every record written to a logger, in order

vars == <<pc, guard, target, wrapper, ops, pending, last, handlerCalls,
          logEntries>>

-----------------------------------------------------------------------------
(* Exceptions *)

\* Classes derived from Exception: what "except Exception" (line 52) matches.
ExceptionKinds == {"ValueError", "TypeError", "RuntimeError", "AttributeError"}

\* Classes derived from BaseException only: process-level signals.
SignalKinds == {"KeyboardInterrupt"}

\* "except Exception as err" matches an instance of this kind.
IsException(kind) == kind \in ExceptionKinds

\* Python's None where an exception value or type is expected.
NoValue == [kind |-> "None", msg |-> "", origin |-> "", seq |-> 0]

\* A new exception instance: kind(msg), created at origin in operation seq.
Instance(kind, msg, origin, seq) ==
    [kind |-> kind, msg |-> msg, origin |-> origin, seq |-> seq]

\* Values handed to the "%" operator.
PyStr(s) == [t |-> "str", s |-> s]
PyInt(s) == [t |-> "int", s |-> s]
PyNone == [t |-> "NoneType", s |-> "None"]
PyExc(e) == [t |-> "exc", s |-> e.msg]

-----------------------------------------------------------------------------
(* label % params *)

Specs == {"%s", "%d"}

\* The template as written, nothing interpolated.
RECURSIVE Raw(_)
Raw(label) == IF Len(label) = 0 THEN "" ELSE Head(label) \o Raw(Tail(label))

\* Format without the interpolation: the template is passed on as written.
FormatRaw(label, params) == [ok |-> TRUE, s |-> Raw(label)]

\* label % params, params a tuple: [ok |-> FALSE] is the TypeError Python
\* raises (not enough arguments, not all arguments converted, %d of a
\* non-number); otherwise s is the interpolated string.
RECURSIVE Format(_, _)
Format(label, params) ==
    IF Len(label) = 0
    THEN [ok |-> Len(params) = 0, s |-> ""]
    ELSE IF Head(label) \in Specs
         THEN IF Len(params) = 0
              THEN [ok |-> FALSE, s |-> ""]
              ELSE IF Head(label) = "%d" /\ Head(params).t # "int"
                   THEN [ok |-> FALSE, s |-> ""]
                   ELSE LET r == Format(Tail(label), Tail(params))
                        IN  [ok |-> r.ok, s |-> Head(params).s \o r.s]
         ELSE LET r == Format(Tail(label), params)
              IN  [ok |-> r.ok, s |-> Head(label) \o r.s]

-----------------------------------------------------------------------------
(* Construction *)

\* AllowFail.logger, the class attribute: logging.getLogger("OnError").
ClassLogger == "OnError"

\* The bound method self.on_error, the default of the on_error option.
OnErrorMethod == [name |-> "on_error", raises |-> "None"]

\* A keyword option that was not passed.
Absent == "absent"
NoHandler == [name |-> Absent, raises |-> "None"]
NoOptions == [on_error |-> NoHandler, logger |-> Absent]

\* AllowFail.__init__(label, *params, **options)
AllowFail(label, params, options) ==
    [label         |-> label,
     params        |-> params,
     error_handler |-> IF options.on_error = NoHandler
                       THEN OnErrorMethod ELSE options.on_error,
     logger        |-> IF options.logger = Absent
                       THEN ClassLogger ELSE options.logger]

NoGuard == AllowFail(<<>>, <<>>, NoOptions)

-----------------------------------------------------------------------------
(* The error handler *)

\* What one call of a handler does: the invocations and the log records it
\* adds, and the exception it raises (NoValue when it returns).
HandlerResult(calls, logs, raised) ==
    [calls |-> calls, logs |-> logs, raised |-> raised]

\* AllowFail.on_error(self, label, err):
\*   self.logger.warning("%s got an error: %s", label, err)
on_error(self, label, err) ==
    <<[channel |-> self.logger,
       level   |-> "WARNING",
       message |-> Format(<<"%s", " got an error: ", "%s">>,
                          <<PyStr(label), PyExc(err)>>).s,
       label   |-> label,
       err     |-> err]>>

\* self.error_handler(label, err), called by the guard `who` in operation seq.
\* The default handler logs; a custom handler returns or raises as it is
\* written to.
CallHandler(self, who, label, err, seq) ==
    LET call == [guard |-> who, handler |-> self.error_handler.name,
                 args |-> <<label, err>>]
    IN  IF self.error_handler = OnErrorMethod
        THEN HandlerResult(<<call>>, on_error(self, label, err), NoValue)
        ELSE HandlerResult(<<call>>, <<>>,
                 IF self.error_handler.raises = "None"
                 THEN NoValue
                 ELSE Instance(self.error_handler.raises, "handler failed",
                               who \o ".handler", seq))

-----------------------------------------------------------------------------
(* Context manager *)

\* __exit__ without "return True".
ExitReturnNone == FALSE

\* "return True" at the end of __exit__ (line 43): the with statement
\* swallows the exception of its block.
ExitReturn == TRUE

\* Variants of __exit__: without the test of typ (the handler runs on every
\* exit), with a failed interpolation swallowed, with the handler call
\* itself guarded.
ExitNoTypCheck(self, who, typ, val, seq) ==
    LET v == IF val = NoValue
             THEN Instance(typ, "", who \o ".typ()", seq) ELSE val
        f == Format(self.label, self.params)
    IN  IF ~f.ok
        THEN [calls |-> <<>>, logs |-> <<>>, ret |-> ExitReturn,
              trace |-> <<who \o ".format">>,
              raised |-> Instance("TypeError", "format",
                                  who \o ".format", seq)]
        ELSE LET h == CallHandler(self, who, f.s, v, seq)
             IN  [calls |-> h.calls, logs |-> h.logs, ret |-> ExitReturn,
                  trace |-> <<who \o ".format", who \o ".handler">>,
                  raised |-> h.raised]

ExitFormatSwallowed(self, who, typ, val, seq) ==
    LET x == ExitNoTypCheck(self, who, typ, val, seq)
    IN  IF typ = "None"
        THEN [calls |-> <<>>, logs |-> <<>>, ret |-> ExitReturn,
              trace |-> <<>>, raised |-> NoValue]
        ELSE IF Len(x.calls) = 0 THEN [x EXCEPT !.raised = NoValue] ELSE x

ExitHandlerGuarded(self, who, typ, val, seq) ==
    LET x == ExitNoTypCheck(self, who, typ, val, seq)
    IN  IF typ = "None"
        THEN [calls |-> <<>>, logs |-> <<>>, ret |-> ExitReturn,
              trace |-> <<>>, raised |-> NoValue]
        ELSE IF Len(x.calls) > 0 THEN [x EXCEPT !.raised = NoValue] ELSE x

\* AllowFail.__exit__(self, typ, val, trbk): ret is the return value, raised
\* the exception that leaves __exit__ itself (NoValue: none).
Exit(self, who, typ, val, seq) ==
    IF typ # "None"
    THEN LET v == IF val = NoValue
                  THEN Instance(typ, "", who \o ".typ()", seq) ELSE val
             f == Format(self.label, self.params)
         IN  IF ~f.ok
             THEN [calls |-> <<>>, logs |-> <<>>, ret |-> ExitReturn,
                   trace |-> <<who \o ".format">>,
                   raised |-> Instance("TypeError", "format",
                                       who \o ".format", seq)]
             ELSE LET h == CallHandler(self, who, f.s, v, seq)
                  IN  [calls |-> h.calls, logs |-> h.logs, ret |-> ExitReturn,
                       trace |-> <<who \o ".format", who \o ".handler">>,
                       raised |-> h.raised]
    ELSE [calls |-> <<>>, logs |-> <<>>, ret |-> ExitReturn,
          trace |-> <<>>, raised |-> NoValue]

\* The with statement around a block that ended with the exception (typ, val)
\* (typ = "None": the block completed): the exception that leaves the
\* statement, NoValue when control resumes after the block.
WithEscapes(typ, val, x, seq) ==
    IF x.raised # NoValue THEN x.raised
    ELSE IF typ # "None" /\ ~x.ret
         THEN (IF val = NoValue THEN Instance(typ, "", "raise", seq) ELSE val)
         ELSE NoValue

-----------------------------------------------------------------------------
(* Decorator *)

\* AllowFailResult = namedtuple("AllowFailResult", ["ok", "result"])
AllowFailResult(ok, result) == [ok |-> ok, result |-> result]

\* AllowFailResult(ok=True, result=func(*args, **kwg))  (line 51), with a
\* variant that loses the value.
SuccessNoValue(value) == AllowFailResult(TRUE, PyNone)

Success(value) == AllowFailResult(TRUE, value)

\* AllowFailResult(ok=False, result=err)  (line 53)
Failure(err) == AllowFailResult(FALSE, err)

\* No result: the call did not return.
NoResult == AllowFailResult(FALSE, NoValue)

\* f_name without the name lookups: always str(func).
FNameRepr(func) == func.repr

\* f_name of protect (lines 55-59): __name__, else func_name, else str(func).
FName(func) ==
    IF "__name__" \in func.attrs THEN func.name
    ELSE IF "func_name" \in func.attrs THEN func.func_name
         ELSE func.repr

\* Variants of the nested guard that share configuration with the guard
\* they protect: its error handler, its logger.
NestedGuardSameHandler(func) ==
    AllowFail(<<"On error handler: ", "%s">>, <<PyStr(FName(func))>>,
              [on_error |-> guard.error_handler, logger |-> Absent])

NestedGuardCustomLogger(func) ==
    AllowFail(<<"On error handler: ", "%s">>, <<PyStr(FName(func))>>,
              [on_error |-> NoHandler, logger |-> guard.logger])

\* The guard protect opens around the handler call (line 61).
NestedGuard(func) ==
    AllowFail(<<"On error handler: ", "%s">>, <<PyStr(FName(func))>>,
              NoOptions)

\* The block of the nested guard (line 62):
\*   self.error_handler(self.label % self.params, err)
HandlerBlock(self, err, seq) ==
    LET f == Format(self.label, self.params)
    IN  IF f.ok
        THEN CallHandler(self, "outer", f.s, err, seq)
        ELSE HandlerResult(<<>>, <<>>,
                 Instance("TypeError", "format", "outer.format", seq))

\* protect(*args, **kwg) of AllowFail.__call__, func behaving as beh says
\* (beh.raises = "None": it returns beh.value; otherwise it raises
\* beh.raises(beh.msg)).
Protect(self, func, args, beh, seq) ==
    IF beh.raises = "None"
    THEN [result |-> Success(beh.value), escaped |-> NoValue,
          calls |-> <<>>, logs |-> <<>>, fcalls |-> <<args>>,
          trace |-> <<"func", "return">>]
    ELSE LET err == Instance(beh.raises, beh.msg, "func", seq)
         IN  IF ~IsException(beh.raises)
             THEN [result |-> NoResult, escaped |-> err,
                   calls |-> <<>>, logs |-> <<>>, fcalls |-> <<args>>,
                   trace |-> <<"func", "raise">>]
             ELSE LET result == Failure(err)
                      nested == NestedGuard(func)
                      h      == HandlerBlock(self, err, seq)
                      x      == Exit(nested, "nested", h.raised.kind,
                                     h.raised, seq)
                      esc    == WithEscapes(h.raised.kind, h.raised, x, seq)
                  IN  [result  |-> IF esc = NoValue THEN result ELSE NoResult,
                       escaped |-> esc,
                       calls   |-> h.calls \o x.calls,
                       logs    |-> h.logs \o x.logs,
                       fcalls  |-> <<args>>,
                       trace   |-> <<"func", "except">>
                                   \o (IF Len(h.calls) > 0
                                       THEN <<"outer.format", "outer.handler">>
                                       ELSE <<"outer.format">>)
                                   \o x.trace
                                   \o (IF esc = NoValue THEN <<"return">>
                                       ELSE <<"raise">>)]

\* functools.wraps(func)(protect): the wrapper takes func's __name__.  The
\* interpreter decides what a missing __name__ does: strict (Python 2) raises
\* AttributeError, otherwise (Python 3) the attribute is skipped.
Wraps(func, strict, seq) ==
    IF "__name__" \in func.attrs
    THEN [wrapper |-> [name |-> func.name, wrapped |-> TRUE],
          raised |-> NoValue]
    ELSE IF strict
         THEN [wrapper |-> [name |-> "", wrapped |-> FALSE],
               raised |-> Instance("AttributeError", "__name__", "wraps", seq)]
         ELSE [wrapper |-> [name |-> "protect", wrapped |-> TRUE],
               raised |-> NoValue]

-----------------------------------------------------------------------------
(* Inputs *)

Labels == {<<"test ", "%s">>, <<"job ", "%d">>, <<"plain">>}

ParamTuples == {<<>>, <<PyStr("valueerror")>>, <<PyInt("1")>>}

\* on_error=: not passed, a handler that records and returns (self.log of
\* the tests), handlers that raise.
Handlers == {NoHandler,
             [name |-> "log", raises |-> "None"],
             [name |-> "bad", raises |-> "RuntimeError"],
             [name |-> "bad", raises |-> "KeyboardInterrupt"]}

Loggers == {Absent, "custom"}

Options == [on_error : Handlers, logger : Loggers]

\* Callables to wrap: a function, an object with func_name only, an object
\* with neither name.
NoFunc == [name |-> "", func_name |-> "", repr |-> "", attrs |-> {}]
Funcs == {[name |-> "valueerror", func_name |-> "valueerror",
           repr |-> "<function valueerror>",
           attrs |-> {"__name__", "func_name"}],
          [name |-> "", func_name |-> "legacy",
           repr |-> "<legacy object>", attrs |-> {"func_name"}],
          [name |-> "", func_name |-> "",
           repr |-> "<partial object>", attrs |-> {}]}

\* What a call of the wrapped function does.
Behaviours == {[raises |-> "None", msg |-> "", value |-> PyInt("1")],
               [raises |-> "None", msg |-> "", value |-> PyNone],
               [raises |-> "ValueError", msg |-> "test exception",
                value |-> PyNone],
               [raises |-> "KeyboardInterrupt", msg |-> "", value |-> PyNone]}

ArgTuples == {<<>>, <<PyInt("1")>>}

\* How a guarded block ends: typ = "None" completes; noval: the interpreter
\* hands __exit__ the type alone, the value being None.
BlockEnds == {[typ |-> "None", noval |-> TRUE],
              [typ |-> "ValueError", noval |-> FALSE],
              [typ |-> "ValueError", noval |-> TRUE],
              [typ |-> "KeyboardInterrupt", noval |-> FALSE]}

-----------------------------------------------------------------------------
(* Initial state and operations *)

NoPending == [typ |-> "None", val |-> NoValue]
NoWrapper == [name |-> "", wrapped |-> FALSE]

\* last: mode is "none", "decorate", "call" or "block"; typ and val are the
\* exception the guarded work raised; result is what the wrapped call
\* returned; escaped is the exception that reached the caller; resumed says
\* control went on after the call or block.
NoLast == [mode |-> "none", typ |-> "None", val |-> NoValue,
           result |-> NoResult, escaped |-> NoValue, resumed |-> FALSE,
           calls |-> <<>>, logs |-> <<>>, fcalls |-> <<>>, args |-> <<>>,
           value |-> PyNone, trace |-> <<>>]

Init ==
    /\ pc = "new"
    /\ guard = NoGuard
    /\ target = NoFunc
    /\ wrapper = NoWrapper
    /\ ops = 0
    /\ pending = NoPending
    /\ last = NoLast
    /\ handlerCalls = <<>>
    /\ logEntries = <<>>

\* guard = AllowFail(label, *params, **options)
Construct ==
    /\ pc = "new"
    /\ \E label \in Labels, params \in ParamTuples, options \in Options :
          guard' = AllowFail(label, params, options)
    /\ pc' = "ready"
    /\ UNCHANGED <<target, wrapper, ops, pending, last, handlerCalls,
                   logEntries>>

\* wrapper = guard(f)
Decorate ==
    /\ pc = "ready"
    /\ target = NoFunc
    /\ \E f \in Funcs, strict \in BOOLEAN :
          LET w == Wraps(f, strict, ops)
          IN  /\ wrapper' = w.wrapper
              /\ target' = IF w.raised = NoValue THEN f ELSE NoFunc
              /\ last' = [NoLast EXCEPT !.mode = "decorate",
                                        !.escaped = w.raised,
                                        !.resumed = w.raised = NoValue]
    /\ UNCHANGED <<pc, guard, ops, pending, handlerCalls, logEntries>>

\* wrapper(*args)
Call ==
    /\ pc = "ready"
    /\ target # NoFunc
    /\ ops < MaxOps
    /\ \E args \in ArgTuples, beh \in Behaviours :
          LET r == Protect(guard, target, args, beh, ops + 1)
          IN  /\ last' = [mode |-> "call", typ |-> beh.raises,
                          val |-> IF beh.raises = "None" THEN NoValue
                                  ELSE Instance(beh.raises, beh.msg, "func",
                                                ops + 1),
                          result |-> r.result, escaped |-> r.escaped,
                          resumed |-> r.escaped = NoValue,
                          calls |-> r.calls, logs |-> r.logs,
                          fcalls |-> r.fcalls, args |-> args,
                          value |-> beh.value, trace |-> r.trace]
              /\ handlerCalls' = handlerCalls \o r.calls
              /\ logEntries' = logEntries \o r.logs
    /\ ops' = ops + 1
    /\ UNCHANGED <<pc, guard, target, wrapper, pending>>

\* with guard:  (AllowFail.__enter__)
Enter ==
    /\ pc = "ready"
    /\ ops < MaxOps
    /\ pc' = "in_block"
    /\ ops' = ops + 1
    /\ UNCHANGED <<guard, target, wrapper, pending, last, handlerCalls,
                   logEntries>>

\* The block of the with statement runs and ends.
Block ==
    /\ pc = "in_block"
    /\ \E b \in BlockEnds :
          pending' = [typ |-> b.typ,
                      val |-> IF b.noval THEN NoValue
                              ELSE Instance(b.typ, "", "block", ops)]
    /\ pc' = "exiting"
    /\ UNCHANGED <<guard, target, wrapper, ops, last, handlerCalls, logEntries>>

\* The with statement calls guard.__exit__ and acts on its result.
ExitBlock ==
    /\ pc = "exiting"
    /\ LET x   == Exit(guard, "outer", pending.typ, pending.val, ops)
           esc == WithEscapes(pending.typ, pending.val, x, ops)
       IN  /\ last' = [mode |-> "block", typ |-> pending.typ,
                       val |-> pending.val, result |-> NoResult,
                       escaped |-> esc, resumed |-> esc = NoValue,
                       calls |-> x.calls, logs |-> x.logs, fcalls |-> <<>>,
                       args |-> <<>>, value |-> PyNone,
                       trace |-> (IF pending.typ = "None"
                                  THEN <<"block">>
                                  ELSE <<"block", "raise">>)
                                 \o x.trace
                                 \o (IF esc = NoValue THEN <<"resume">>
                                     ELSE <<"propagate">>)]
           /\ handlerCalls' = handlerCalls \o x.calls
           /\ logEntries' = logEntries \o x.logs
    /\ pending' = NoPending
    /\ pc' = "ready"
    /\ UNCHANGED <<guard, target, wrapper, ops>>

Next == Construct \/ Decorate \/ Call \/ Enter \/ Block \/ ExitBlock

Spec == Init /\ [][Next]_vars

-----------------------------------------------------------------------------
(* Properties *)

\* Reference interpolation for the templates of Labels (literal text followed
\* by at most one specifier), written without Format.
WellFormed(label, params) ==
    IF Len(label) = 1
    THEN Len(params) = 0
    ELSE Len(params) = 1 /\ (label[2] = "%d" => params[1].t = "int")

Interpolated(label, params) ==
    IF Len(label) = 1 THEN label[1] ELSE label[1] \o params[1].s

\* The name a report about the handler of `target` carries.
TargetName ==
    IF target.attrs = {} THEN target.repr
    ELSE IF "__name__" \in target.attrs THEN target.name
         ELSE target.func_name

\* Invocations, among calls, of the handler of the guard who.
CountOf(calls, who) ==
    Cardinality({i \in 1..Len(calls) : calls[i].guard = who})

\* In the last operation the guard's own handler was invoked and raised.
HandlerFailed ==
    /\ guard.error_handler.raises # "None"
    /\ CountOf(last.calls, "outer") > 0

\* C1: decorator mode, f raises an error e (Exception category): the wrapped
\* call returns (ok=false, value=e) and nothing is raised to the caller.
C1_FailingCallReturnsOutcome ==
    (last.mode = "call" /\ last.typ \in ExceptionKinds)
        => /\ last.result = [ok |-> FALSE, result |-> last.val]
           /\ last.escaped = NoValue
           /\ last.resumed

C1_Witness ==
    /\ last.mode = "call"
    /\ last.typ = "ValueError"
    /\ HandlerFailed
    /\ last.result = [ok |-> FALSE, result |-> last.val]
    /\ last.result.result.msg = "test exception"

\* C2: decorator mode, f returns v: the wrapped call returns (ok=true,
\* value=v) and f was invoked exactly once, with the caller's arguments.
C2_SuccessfulCallReturnsValue ==
    (last.mode = "call" /\ last.typ = "None")
        => /\ last.result = [ok |-> TRUE, result |-> last.value]
           /\ last.fcalls = <<last.args>>
           /\ last.escaped = NoValue

C2_Witness ==
    /\ last.mode = "call"
    /\ last.typ = "None"
    /\ last.args = <<PyInt("1")>>
    /\ last.result = [ok |-> TRUE, result |-> PyInt("1")]

C4_FailingHandlerContained ==
    (last.mode = "call" /\ last.typ \in ExceptionKinds /\ HandlerFailed)
        => /\ last.result = [ok |-> FALSE, result |-> last.val]
           /\ last.escaped = NoValue
           /\ Len(last.logs) = 1
           /\ last.logs[1].level = "WARNING"
           /\ last.logs[1].label = "On error handler: " \o TargetName
           /\ last.logs[1].err.kind = guard.error_handler.raises
           /\ last.logs[1].err.origin = "outer.handler"
           /\ last.logs[1].message =
                  "On error handler: " \o TargetName
                      \o " got an error: handler failed"

C4_Witness ==
    /\ last.mode = "call"
    /\ last.typ = "ValueError"
    /\ HandlerFailed
    /\ target.attrs = {}
    /\ Len(last.logs) = 1
    /\ last.logs[1].label = "On error handler: <partial object>"

\* C5: every invocation of an error handler passes exactly two arguments,
\* the label with the params interpolated (never the raw template) and the
\* error object itself (block exit that is given no value passes a new
\* message-less instance of the failure's type); in decorator mode the
\* error object is the one returned as the Outcome's value.
C5_HandlerArguments ==
    \A i \in 1..Len(last.calls) :
        LET c == last.calls[i]
        IN  /\ Len(c.args) = 2
            /\ c.guard = "outer" =>
                 /\ WellFormed(guard.label, guard.params)
                 /\ c.args[1] = Interpolated(guard.label, guard.params)
                 /\ (Len(guard.label) > 1 => c.args[1] # Raw(guard.label))
                 /\ c.args[2] # NoValue
                 /\ (last.val # NoValue => c.args[2] = last.val)
                 /\ (last.val = NoValue =>
                        c.args[2].kind = last.typ /\ c.args[2].msg = "")
                 /\ (last.mode = "call" => c.args[2] = last.result.result)
            /\ c.guard = "nested" =>
                 /\ c.args[1] = "On error handler: " \o TargetName
                 /\ c.args[2].origin \in {"outer.handler", "outer.format"}

C5_Witness ==
    /\ last.mode = "call"
    /\ guard.error_handler.name = "log"
    /\ Len(last.calls) = 1
    /\ last.calls[1].args[1] = "test valueerror"
    /\ last.calls[1].args[2] = last.result.result
    /\ last.calls[1].args[2].kind = "ValueError"

\* C6 as stated: the error handler is invoked exactly once for each guarded
\* call or block that fails and zero times for one that completes normally.
C6_HandlerOncePerFailure ==
    last.mode \in {"call", "block"}
        => CountOf(last.calls, "outer") = (IF last.typ # "None" THEN 1 ELSE 0)

\* The guard intercepts the failure of the last operation: any exception of a
\* block, an Exception-category error of a wrapped call.
Intercepted ==
    \/ last.mode = "block" /\ last.typ # "None"
    \/ last.mode = "call" /\ last.typ \in ExceptionKinds

\* C6 amended: the error handler is invoked exactly once for each failure
\* the guard intercepts whose label interpolates, after the failure and
\* before control returns to the caller; it is invoked zero times when the
\* interpolation of the label fails, when a wrapped call raises a
\* process-level signal, and when the call or block completes normally.
C6_HandlerOncePerReportedFailure ==
    last.mode \in {"call", "block"}
        => IF Intercepted /\ WellFormed(guard.label, guard.params)
           THEN /\ CountOf(last.calls, "outer") = 1
                /\ \E j \in 2..(Len(last.trace) - 1) :
                      /\ last.trace[j] = "outer.handler"
                      /\ last.trace[j - 1] = "outer.format"
                      /\ \E k \in 1..(j - 1) :
                            last.trace[k] \in {"raise", "except"}
           ELSE /\ CountOf(last.calls, "outer") = 0
                /\ \A j \in 1..Len(last.trace) :
                      last.trace[j] # "outer.handler"

C6_Witness ==
    /\ ops = 2
    /\ last.mode = "block"
    /\ last.typ = "None"
    /\ Len(last.calls) = 0
    /\ guard.error_handler.name = "log"
    /\ Len(handlerCalls) = 1

\* C7 as stated: when the interpolation of the label fails while a failure
\* of guarded work is being reported, the formatting failure propagates to
\* the caller, in decorator mode as well as in scoped-block mode.
C7_FormatFailurePropagates ==
    (Intercepted /\ ~WellFormed(guard.label, guard.params))
        => /\ last.escaped.kind = "TypeError"
           /\ last.escaped.origin = "outer.format"

\* C7 amended: in scoped-block mode the formatting failure is not caught
\* and leaves the block in place of the block's failure; in decorator mode
\* it is raised inside the nested guard, which suppresses it and reports it
\* as one warning entry, and the wrapped call returns (ok=false, value=e).
\* In both modes the error handler is not invoked.
C7_FormatFailureByMode ==
    (Intercepted /\ ~WellFormed(guard.label, guard.params))
        => /\ CountOf(last.calls, "outer") = 0
           /\ last.mode = "block" =>
                /\ last.escaped.kind = "TypeError"
                /\ last.escaped.origin = "outer.format"
                /\ ~last.resumed
                /\ last.logs = <<>>
           /\ last.mode = "call" =>
                /\ last.escaped = NoValue
                /\ last.result = [ok |-> FALSE, result |-> last.val]
                /\ Len(last.logs) = 1
                /\ last.logs[1].channel = "OnError"
                /\ last.logs[1].label = "On error handler: " \o TargetName
                /\ last.logs[1].err.kind = "TypeError"
                /\ last.logs[1].err.origin = "outer.format"

C7_Witness ==
    /\ ops = 2
    /\ last.mode = "call"
    /\ last.typ = "ValueError"
    /\ ~WellFormed(guard.label, guard.params)
    /\ Len(last.logs) = 1
    /\ Len(logEntries) = 1
    /\ Len(handlerCalls) = 1

\* C8: a process-level signal raised by guarded work is not suppressed and
\* not turned into an Outcome, in decorator mode and in scoped-block mode:
\* it reaches the caller.
C8_SignalsNotContained ==
    (last.mode \in {"call", "block"} /\ last.typ \in SignalKinds)
        => /\ last.escaped = last.val
           /\ last.result = [ok |-> FALSE, result |-> NoValue]
           /\ ~last.resumed

\* C9: when the error handler of a decorator-mode guard raises, the
\* handler's failure is reported through a default-configured guard: it is
\* written to the "OnError" channel by the default handler, never to the
\* logger or the handler configured on the original guard, which is not
\* invoked a second time.
C9_SecondaryReportIsolated ==
    (last.mode = "call" /\ HandlerFailed)
        => /\ CountOf(last.calls, "outer") = 1
           /\ CountOf(last.calls, "nested") = 1
           /\ \A i \in 1..Len(last.calls) :
                 last.calls[i].guard = "nested"
                     => last.calls[i].handler = "on_error"
           /\ Len(last.logs) = 1
           /\ \A i \in 1..Len(last.logs) : last.logs[i].channel = "OnError"

C9_Witness ==
    /\ last.mode = "call"
    /\ HandlerFailed
    /\ guard.logger = "custom"
    /\ Len(last.logs) = 1
    /\ last.logs[1].channel = "OnError"

\* C10: scoped-block mode, the block raises e and the error handler then
\* raises h: h leaves the block in place of e, e is not re-raised, and no
\* nested guard reports h.
C10_BlockHandlerFailureEscapes ==
    (last.mode = "block" /\ last.typ # "None" /\ HandlerFailed)
        => /\ last.escaped.kind = guard.error_handler.raises
           /\ last.escaped.origin = "outer.handler"
           /\ last.escaped # last.val
           /\ ~last.resumed
           /\ CountOf(last.calls, "nested") = 0
           /\ last.logs = <<>>

C10_Witness ==
    /\ last.mode = "block"
    /\ last.typ = "ValueError"
    /\ HandlerFailed
    /\ last.escaped.kind = "RuntimeError"
    /\ last.escaped.origin = "outer.handler"

====
